---------------------------- MODULE Spec2Model ----------------------------
(***************************************************************************)
(* A model of ASPAS.py: the Data record store (lines, comments and the two *)
(* calibration scalars, with its text file format) and the Comparator      *)
(* handlers that drive it at the probe position M.                         *)
(*                                                                         *)
(* Numbers are exact decimals held as integers:                            *)
(*   pixel positions          in units of 10^-7 px  (PosUnit per px),      *)
(*   physical positions, the offset and every number of a file             *)
(*                            in units of 10^-4     (FileUnit per unit),   *)
(*   intensities              in units of 10^-4,                           *)
(*   the resolution           as a fraction num/den in lowest terms.       *)
(* 10^-7 px is the grid on which (physical - offset) * resolution is exact *)
(* for a 4-decimal position and a 3-decimal resolution.  Rounding is to    *)
(* nearest, ties to even, as Python's round() and format() do.             *)
(***************************************************************************)
EXTENDS Integers, Sequences, FiniteSets, TLC

(***************************************************************************)
(* Bounds of the model.                                                    *)
(***************************************************************************)
MaxOps == 4
PlateWidthPx == 10

(***************************************************************************)
(* Scales.                                                                 *)
(***************************************************************************)
PosUnit == 10^7
FileUnit == 10^4
\* The comparison "abs(pos - self.M) < 0.1" of the three handlers.
Tolerance == PosUnit \div 10
\* self.plate_width (load_plate), in position units.
plate_width == PlateWidthPx * PosUnit

(***************************************************************************)
(* Arithmetic.                                                             *)
(***************************************************************************)
Abs(x) == IF x < 0 THEN -x ELSE x

RECURSIVE GCD(_, _)
GCD(a, b) == IF b = 0 THEN a ELSE GCD(b, a % b)

\* A fraction in lowest terms (den > 0).
Frac(n, d) == LET g == GCD(Abs(n), d) IN [num |-> n \div g, den |-> d \div g]

\* c + a*b/n rounded to the nearest integer, ties to even, for n > 0, computed
\* without forming a*b (a = q*n + m, so a*b/n = q*b + m*b/n).
RoundMulDiv(a, b, n, c) ==
    LET q == a \div n
        m == a % n
        t == c + q * b + ((m * b) \div n)
        r == (m * b) % n
    IN  IF 2 * r < n THEN t
        ELSE IF 2 * r > n THEN t + 1
        ELSE IF t % 2 = 0 THEN t ELSE t + 1

\* round(x, 3) of the resolution, as a number of a file (units of 10^-4).
Round3(res) == 10 * RoundMulDiv(res.num, 1000, res.den, 0)

\* "{pos/self.plate_resolution + self.plate_offset:>8.4f}": the physical
\* position, 4 decimals.  pos/10^7 / (num/den) * 10^4 = pos*den / (1000*num).
Phys4(pos, res, off) == RoundMulDiv(pos, res.den, 1000 * res.num, off)

\* "{self.emission_lines[pos]:10.3f}": the intensity, 3 decimals.
Fmt3(i) == 10 * RoundMulDiv(i, 1, 10, 0)

\* "(float(...) - self.plate_offset)*self.plate_resolution": the pixel
\* position of a row.  (f-off)/10^4 * num/den * 10^7 = (f-off)*1000*num/den.
PixelOf(f, res, off) == RoundMulDiv(f - off, 1000 * res.num, res.den, 0)

(***************************************************************************)
(* Dictionaries.  emission_lines keeps its insertion order (get_positions  *)
(* and the handlers' loops walk it): a sequence of [pos, val] with no      *)
(* position twice.  Nothing walks comments: a function on its keys.        *)
(* Both are defaultdicts: reading a missing key inserts the default.       *)
(***************************************************************************)
EmptyComment == <<>>

KeySeq(d) == [i \in 1..Len(d) |-> d[i].pos]
KeySet(d) == {d[i].pos : i \in 1..Len(d)}
IndexOf(d, k) == CHOOSE i \in 1..Len(d) : d[i].pos = k
Lookup(d, k) == d[IndexOf(d, k)].val

\* d[k] = v
DictSet(d, k, v) ==
    IF k \in KeySet(d)
    THEN [d EXCEPT ![IndexOf(d, k)] = [pos |-> k, val |-> v]]
    ELSE Append(d, [pos |-> k, val |-> v])

\* del d[k], for a key of d
DictDel(d, k) ==
    LET i == IndexOf(d, k)
    IN  SubSeq(d, 1, i - 1) \o SubSeq(d, i + 1, Len(d))

\* c[k] = v on the comments
ComSet(c, k, v) == [q \in DOMAIN c \cup {k} |-> IF q = k THEN v ELSE c[q]]
ComDel(c, k) == [q \in DOMAIN c \ {k} |-> c[q]]
\* the value c[k] reads, and the dictionary the read leaves (defaultdict)
ComRead(c, k) == IF k \in DOMAIN c THEN c[k] ELSE EmptyComment
ComTouch(c, k) == IF k \in DOMAIN c THEN c ELSE ComSet(c, k, EmptyComment)

\* sorted(list): the keys of d in ascending order
RECURSIVE SortedSeq(_)
SortedSeq(S) ==
    IF S = {} THEN <<>>
    ELSE LET lo == CHOOSE x \in S : \A y \in S : x <= y
         IN  <<lo>> \o SortedSeq(S \ {lo})

(***************************************************************************)
(* class Data                                                              *)
(***************************************************************************)
\* Data.__init__
Data_init ==
    [ plate_resolution |-> Frac(24000, 254),
      plate_offset     |-> 0,
      emission_lines   |-> <<>>,
      comments         |-> <<>> ]

Data_add_line(D, position, intensity) ==
    [D EXCEPT !.emission_lines = DictSet(@, position, intensity)]

Data_add_comment(D, position, comment) ==
    [D EXCEPT !.comments = ComSet(@, position, comment)]

\* A removal that forgets the comment dictionary.
Data_remove_line_only(D, position) ==
    [D EXCEPT !.emission_lines = DictDel(@, position)]

\* del emission_lines[position]; the test reads comments[position], which
\* inserts "" for a position with no comment, and deletes only a non-empty one.
Data_remove_line(D, position) ==
    [D EXCEPT !.emission_lines = DictDel(@, position),
              !.comments = IF ComRead(@, position) # EmptyComment
                           THEN ComDel(@, position)
                           ELSE ComTouch(@, position)]

Data_get_positions(D) == KeySeq(D.emission_lines)


(***************************************************************************)
(* The line file: a sequence of text lines, each the sequence of tokens    *)
(* str.split() gives.  A token is a number (float() reads it) or a word    *)
(* (float() raises ValueError on it).  NoFile is a path open() cannot      *)
(* read, such as the "" of a cancelled file dialog.                        *)
(***************************************************************************)
Num(v) == [k |-> "num", v |-> v]
Word(s) == [k |-> "word", s |-> s]
NoError == "none"
\* The text of a token.
TokText(t) == IF t.k = "word" THEN t.s ELSE ToString(t.v)
\* A file is [exists, lines]; NoFile is a path open() cannot read.
TextFile(lines) == [exists |-> TRUE, lines |-> lines]
NoFile == [exists |-> FALSE, lines |-> <<>>]

\* The words of a comment, as tokens of a row.
CommentTokens(c) == [i \in 1..Len(c) |-> Word(c[i])]

\* A row written without the offset ("pos/self.plate_resolution" alone).
SaveRow_no_offset(D, pos) ==
    << Num(Phys4(pos, D.plate_resolution, 0)),
       Num(Fmt3(Lookup(D.emission_lines, pos))) >>
    \o CommentTokens(ComRead(D.comments, pos))

\* One row of save_lines.
SaveRow(D, pos) ==
    << Num(Phys4(pos, D.plate_resolution, D.plate_offset)),
       Num(Fmt3(Lookup(D.emission_lines, pos))) >>
    \o CommentTokens(ComRead(D.comments, pos))

\* The three lines save_lines writes first.
SaveHeader(D) ==
    << <<Word("Plate"), Word("Resolution:"),
         Num(Round3(D.plate_resolution)), Word("px/mm")>>,
       <<Word("Plate"), Word("Offset:"), Num(D.plate_offset), Word("mm")>>,
       <<Word("Position"), Word("|"), Word("Intensity"), Word("|"),
         Word("Comments")>> >>

\* The store save_lines leaves: the read self.comments[pos] inserts "" for
\* every line that has no comment yet.
SaveTouched(D) ==
    [D EXCEPT !.comments =
        [q \in DOMAIN @ \cup KeySet(D.emission_lines) |-> ComRead(@, q)]]

\* A save that walks get_positions() as it is, without sorted().
Data_save_lines_unsorted(D) ==
    LET order == Data_get_positions(D)
    IN  [ file |-> TextFile(SaveHeader(D)
                     \o [i \in 1..Len(order) |-> SaveRow(D, order[i])]),
          data |-> SaveTouched(D) ]

\* Data.save_lines: the file it writes, and the store it leaves.
Data_save_lines(D) ==
    LET order == SortedSeq({Data_get_positions(D)[i] :
                                i \in 1..Len(Data_get_positions(D))})
    IN  [ file |-> TextFile(SaveHeader(D)
                     \o [i \in 1..Len(order) |-> SaveRow(D, order[i])]),
          data |-> SaveTouched(D) ]

\* float(line.split()[n]): the exception it raises, if any (n counts from 1).
FloatError(line, n) ==
    IF Len(line) < n THEN "IndexError"
    ELSE IF line[n].k # "num" THEN "ValueError"
    ELSE NoError

\* The loop over lines_file[3:], from line k on: each row is parsed whole
\* (position, intensity, optional comment) and then stored; the first row
\* that cannot be parsed raises and leaves the rows before it stored.
RECURSIVE LoadRows(_, _, _)
LoadRows(D, lines, k) ==
    IF k > Len(lines) THEN [data |-> D, raised |-> NoError]
    ELSE LET line == lines[k]
         IN  IF FloatError(line, 1) # NoError
             THEN [data |-> D, raised |-> FloatError(line, 1)]
             ELSE IF FloatError(line, 2) # NoError
             THEN [data |-> D, raised |-> FloatError(line, 2)]
             ELSE LET p == PixelOf(line[1].v, D.plate_resolution, D.plate_offset)
                      i == line[2].v
                      c == IF Len(line) >= 3 THEN <<TokText(line[3])>>
                           ELSE EmptyComment
                  IN  LoadRows([D EXCEPT !.emission_lines = DictSet(@, p, i),
                                         !.comments = ComSet(@, p, c)],
                               lines, k + 1)

\* Data.load_lines after its first two statements: D0 is the store with
\* both dictionaries replaced.  The resolution is assigned before the offset
\* is parsed, the offset before the rows.
LoadFrom(D0, f) ==
    LET L == f.lines
    IN  IF ~f.exists THEN [data |-> D0, raised |-> "FileNotFoundError"]
        ELSE IF Len(L) < 1 THEN [data |-> D0, raised |-> "IndexError"]
        ELSE IF FloatError(L[1], 3) # NoError
        THEN [data |-> D0, raised |-> FloatError(L[1], 3)]
        ELSE LET D1 == [D0 EXCEPT !.plate_resolution = Frac(L[1][3].v, FileUnit)]
             IN  IF Len(L) < 2 THEN [data |-> D1, raised |-> "IndexError"]
                 ELSE IF FloatError(L[2], 3) # NoError
                 THEN [data |-> D1, raised |-> FloatError(L[2], 3)]
                 ELSE LoadRows([D1 EXCEPT !.plate_offset = L[2][3].v], L, 4)

\* A load into the dictionaries as they are (not replaced first).
Data_load_lines_into(D, f) == LoadFrom(D, f)

\* Data.load_lines: the store it leaves and the exception it raises, if any.
\* Both dictionaries are replaced before the file is opened.
Data_load_lines(D, f) ==
    LoadFrom([D EXCEPT !.emission_lines = <<>>, !.comments = <<>>], f)

(***************************************************************************)
(* Inputs of the model.                                                    *)
(***************************************************************************)
\* Probe positions the operator can bring M to (mir_redraw: self.M = Mid),
\* as hundredths of a pixel: on both borders of the image, three mutually
\* close positions inside it, and one in the last pixel (between the last
\* sample, plate_width - 1, and plate_width).
Px100(h) == h * (PosUnit \div 100)
Probes ==
    { 0, Px100(500), Px100(508), Px100(515),
      plate_width - Px100(50), plate_width }

\* The words the operator can type in the comment entry: nothing, one word,
\* two words.
CommentTexts == { <<>>, <<"a">>, <<"b", "c">> }

\* Values typed into the DPI entry and the offset entry (offset in 10^-4 mm).
DpiValues == { 254000 }
OffsetValues == { 15000 }

\* The signal of the loaded plate, scan_plate's interpolant, is an input:
\* a flat grey plate (256 - 128) with a ripple that reaches the 4th decimal.
intensity(x) == 128 * FileUnit + ((x \div (PosUnit \div 100)) % 97)

\* Line files found on disk besides the one save_lines writes.
HeaderRes(t) == <<Word("Plate"), Word("Resolution:"), t, Word("px/mm")>>
HeaderOff(t) == <<Word("Plate"), Word("Offset:"), t, Word("mm")>>
HeaderCols == <<Word("Position"), Word("|"), Word("Intensity"), Word("|"),
                Word("Comments")>>
\* 100.000 px/mm, offset 0.5 mm; rows at 5.0 px, 8.0 px and 5.0 px again.
GoodFile ==
    TextFile(<< HeaderRes(Num(1000000)), HeaderOff(Num(5000)), HeaderCols,
                <<Num(5500), Num(1280000), Word("x")>>,
                <<Num(5800), Num(645000)>>,
                <<Num(5500), Num(72500), Word("y"), Word("z")>> >>)
\* the resolution is not a number
BadHeaderFile ==
    TextFile(<< HeaderRes(Word("n/a")), HeaderOff(Num(5000)), HeaderCols,
                <<Num(5500), Num(1280000)>> >>)
\* the offset line lacks its third field
BadOffsetFile ==
    TextFile(<< HeaderRes(Num(1000000)), <<Word("Plate"), Word("Offset:")>>,
                HeaderCols, <<Num(5500), Num(1280000)>> >>)
\* the second row lacks its intensity
BadRowFile ==
    TextFile(<< HeaderRes(Num(1000000)), HeaderOff(Num(5000)), HeaderCols,
                <<Num(5500), Num(1280000), Word("x")>>,
                <<Num(5800)>> >>)
Files == { GoodFile, BadHeaderFile, BadOffsetFile, BadRowFile, NoFile }

(***************************************************************************)
(* class Comparator.  State: self.data, the probe position self.M and the  *)
(* plate's line file on disk (self.file[:-4] + "_lines.dat").  Recorded    *)
(* beside it, for stating properties of one request: the handler that ran  *)
(* last, its input, the store it started from, the text it put in the      *)
(* comment_notif label ("" when it put none), the exception it raised,     *)
(* and the number of requests so far (bounded by MaxOps).                  *)
(***************************************************************************)
VARIABLES data, M, disk, last, arg, pre, comment_notif, raised, nops

vars == <<data, M, disk, last, arg, pre, comment_notif, raised, nops>>

\* One more request, while the bound allows.
NoArg == <<>>
Request(name, input) ==
    /\ nops < MaxOps
    /\ nops' = nops + 1
    /\ last' = name
    /\ arg' = input
    /\ pre' = data

Near(pos, m) == Abs(pos - m) < Tolerance

\* Comparator.add_line's flags.  The loop assigns "alread_in", a name nothing
\* reads, so already_in keeps its initial False.
\* A bound on the interpolation domain [0, plate_width - 1] instead.
out_of_domain(m) == ~(0 <= m /\ m <= plate_width - PosUnit)

out_of_bounds(m) == ~(0 < m /\ m < plate_width)
already_in(D, m) == FALSE

\* Comparator.add_line: the store it leaves.
add_line_data(D, m) ==
    IF ~already_in(D, m) /\ ~out_of_bounds(m)
    THEN Data_add_line(D, m, intensity(m))
    ELSE D

\* Comparator.add_line: the text it leaves in comment_notif.
add_line_notif(D, m) ==
    IF ~already_in(D, m) /\ ~out_of_bounds(m) THEN "Line added."
    ELSE IF out_of_bounds(m) THEN "Error: Line out of bounds."
    ELSE "Error: Line already added."

\* The loop of Comparator.add_comment over get_positions(), from index i:
\* every position within the tolerance gets the comment ("continue" ends
\* an iteration, not the loop).
RECURSIVE add_comment_loop(_, _, _, _, _)
add_comment_loop(D, positions, i, m, text) ==
    IF i > Len(positions) THEN D
    ELSE add_comment_loop(
             IF Near(positions[i], m)
             THEN Data_add_comment(D, positions[i], text)
             ELSE D,
             positions, i + 1, m, text)

\* A loop that stops at the first position within the tolerance.
RECURSIVE delete_line_first(_, _, _, _)
delete_line_first(D, positions, i, m) ==
    IF i > Len(positions) THEN D
    ELSE IF Near(positions[i], m) THEN Data_remove_line(D, positions[i])
    ELSE delete_line_first(D, positions, i + 1, m)

\* The loop of Comparator.delete_line over the list get_positions() returned
\* before the first removal.
RECURSIVE delete_line_loop(_, _, _, _)
delete_line_loop(D, positions, i, m) ==
    IF i > Len(positions) THEN D
    ELSE delete_line_loop(
             IF Near(positions[i], m)
             THEN Data_remove_line(D, positions[i])
             ELSE D,
             positions, i + 1, m)

\* The flag "line" of add_comment and delete_line.
line_found(D, m) == \E i \in 1..Len(D.emission_lines) : Near(D.emission_lines[i].pos, m)

Init ==
    /\ data = Data_init
    /\ M \in Probes
    /\ disk = NoFile
    /\ last = "init"
    /\ arg = NoArg
    /\ pre = Data_init
    /\ comment_notif = ""
    /\ raised = NoError
    /\ nops = 0

\* redraw(event) after a click on the plate or a move of the slider:
\* mir_redraw sets self.M.
Redraw(m) ==
    /\ M' = m
    /\ last' = "redraw"
    /\ arg' = NoArg
    /\ pre' = data
    /\ comment_notif' = ""
    /\ raised' = NoError
    /\ UNCHANGED <<data, disk, nops>>

AddLine ==
    /\ Request("add_line", NoArg)
    /\ data' = add_line_data(data, M)
    /\ comment_notif' = add_line_notif(data, M)
    /\ raised' = NoError
    /\ UNCHANGED <<M, disk>>

AddComment(text) ==
    /\ Request("add_comment", text)
    /\ data' = add_comment_loop(data, Data_get_positions(data), 1, M, text)
    /\ comment_notif' = IF line_found(data, M) THEN "Comment added."
                        ELSE "Error: Line not found.\nComment not added."
    /\ raised' = NoError
    /\ UNCHANGED <<M, disk>>

DeleteLine ==
    /\ Request("delete_line", NoArg)
    /\ data' = delete_line_loop(data, Data_get_positions(data), 1, M)
    /\ comment_notif' = IF line_found(data, M) THEN "Line deleted."
                        ELSE "Error: No line to delete."
    /\ raised' = NoError
    /\ UNCHANGED <<M, disk>>

SaveLines ==
    /\ Request("save_lines", NoArg)
    /\ data' = Data_save_lines(data).data
    /\ disk' = Data_save_lines(data).file
    /\ comment_notif' = "Lines saved. You may now safely exit."
    /\ raised' = NoError
    /\ UNCHANGED M

\* Comparator.load_lines on the file the dialog returned: an exception of
\* Data.load_lines ends the handler before the notification.
LoadLines(f) ==
    /\ Request("load_lines", f)
    /\ data' = Data_load_lines(data, f).data
    /\ raised' = Data_load_lines(data, f).raised
    /\ comment_notif' = IF Data_load_lines(data, f).raised = NoError
                        THEN "Lines loaded.\nClick plate to refresh."
                        ELSE ""
    /\ UNCHANGED <<M, disk>>

\* set_dpi: float(entry)/25.4 = 10*dpi/254
SetDpi(dpi) ==
    /\ Request("set_dpi", dpi)
    /\ data' = [data EXCEPT !.plate_resolution = Frac(10 * dpi, 254)]
    /\ comment_notif' = "DPI recorded."
    /\ raised' = NoError
    /\ UNCHANGED <<M, disk>>

SetOffset(off) ==
    /\ Request("set_offset", off)
    /\ data' = [data EXCEPT !.plate_offset = off]
    /\ comment_notif' = "Offset recorded."
    /\ raised' = NoError
    /\ UNCHANGED <<M, disk>>

Next ==
    \/ \E m \in Probes : Redraw(m)
    \/ AddLine
    \/ \E text \in CommentTexts : AddComment(text)
    \/ DeleteLine
    \/ SaveLines
    \/ \E f \in Files \cup {disk} : LoadLines(f)
    \/ \E dpi \in DpiValues : SetDpi(dpi)
    \/ \E off \in OffsetValues : SetOffset(off)

Spec == Init /\ [][Next]_vars

(***************************************************************************)
(* The editing requests alone: add-line, comment and delete-line at the    *)
(* probe position, from the empty store.                                   *)
(***************************************************************************)
NextEdit ==
    \/ \E m \in Probes : Redraw(m)
    \/ AddLine
    \/ \E text \in CommentTexts : AddComment(text)
    \/ DeleteLine

SpecEdit == Init /\ [][NextEdit]_vars

(***************************************************************************)
(* The store called directly, without the handlers' search for a stored    *)
(* position near M: Data.add_line, Data.add_comment and Data.remove_line   *)
(* at the position M.                                                      *)
(***************************************************************************)
DataAddLine ==
    /\ Request("Data.add_line", NoArg)
    /\ data' = Data_add_line(data, M, intensity(M))
    /\ raised' = NoError
    /\ UNCHANGED <<M, disk, comment_notif>>

DataAddComment(text) ==
    /\ Request("Data.add_comment", text)
    /\ data' = Data_add_comment(data, M, text)
    /\ raised' = NoError
    /\ UNCHANGED <<M, disk, comment_notif>>

\* "del self.emission_lines[position]" raises KeyError on a missing key.
DataRemoveLine ==
    /\ Request("Data.remove_line", NoArg)
    /\ IF M \in KeySet(data.emission_lines)
       THEN data' = Data_remove_line(data, M) /\ raised' = NoError
       ELSE data' = data /\ raised' = "KeyError"
    /\ UNCHANGED <<M, disk, comment_notif>>

NextData ==
    \/ \E m \in Probes : Redraw(m)
    \/ DataAddLine
    \/ \E text \in CommentTexts : DataAddComment(text)
    \/ DataRemoveLine

SpecData == Init /\ [][NextData]_vars

(***************************************************************************)
(* Properties.                                                             *)
(***************************************************************************)
Lines(D) == KeySet(D.emission_lines)
IntensityOf(D, q) == Lookup(D.emission_lines, q)
CommentOf(D, q) == ComRead(D.comments, q)
NoNearDuplicates(D) ==
    \A q1, q2 \in Lines(D) : q1 # q2 => Abs(q1 - q2) >= Tolerance

\* C1: after any sequence of add-line, delete-line and comment requests from
\* the empty store, no two stored positions differ by less than 0.1, and an
\* add-line request within 0.1 of a stored position leaves the number of
\* stored lines unchanged.  (Checked under SpecEdit; the code violates it.)
C1_NoDuplicateLines ==
    /\ NoNearDuplicates(data)
    /\ (last = "add_line" /\ (\E q \in Lines(pre) : Near(q, M)))
         => Len(data.emission_lines) = Len(pre.emission_lines)

\* C2: a load that fails on an unparsable header or data row leaves
\* emission_lines, comments, plate_resolution and plate_offset as they were
\* before the call.  (The code violates it.)
C2_FailedLoadLeavesStore ==
    (last = "load_lines" /\ raised \in {"IndexError", "ValueError"})
      => data = pre

\* save_lines followed by load_lines on the file it wrote.
RoundTrip(D) == Data_load_lines(Data_save_lines(D).data, Data_save_lines(D).file)
\* No comment of a stored line contains whitespace (two words).
OneWordComments(D) == \A q \in Lines(D) : Len(CommentOf(D, q)) <= 1
\* The resolution rounded to 3 decimals, as a fraction.
RoundedResolution(D) == Frac(Round3(D.plate_resolution), FileUnit)
\* The physical position of q as written, 4 decimals.
PhysicalOf(D, q) == Phys4(q, D.plate_resolution, D.plate_offset)
\* (round4(q/r + o) - o) * round3(r): the pixel position q comes back as.
BackOf(D, q) == PixelOf(PhysicalOf(D, q), RoundedResolution(D), D.plate_offset)
\* Half a unit of the 4th decimal of the physical position, in pixels at
\* the store's resolution: 0.00005 * r.
HalfStepPx(D) == (500 * D.plate_resolution.num) \div D.plate_resolution.den

\* C3 as stated (taken on stores with no two positions within 0.1): save then
\* load gives the same number of entries, each position within the rounding
\* of its physical position to 4 decimals of the original, each intensity
\* the original rounded to 3 decimals, each comment identical, the
\* resolution rounded to 3 decimals and the same offset.
C3_RoundTripAsStated ==
    (OneWordComments(data) /\ NoNearDuplicates(data)) =>
      LET R == RoundTrip(data)
      IN  /\ R.raised = NoError
          /\ Len(R.data.emission_lines) = Len(data.emission_lines)
          /\ \A q \in Lines(data) : \E p \in Lines(R.data) :
                /\ Abs(p - q) <= HalfStepPx(data)
                /\ IntensityOf(R.data, p) = Fmt3(IntensityOf(data, q))
                /\ CommentOf(R.data, p) = CommentOf(data, q)
          /\ R.data.plate_resolution = RoundedResolution(data)
          /\ R.data.plate_offset = data.plate_offset

\* C3 (amended): save then load succeeds and gives the resolution rounded to
\* 3 decimals and the same offset; the loaded positions are exactly the
\* values (round4(q/r + o) - o) * round3(r) of the stored positions q, so
\* lines whose physical positions agree to 4 decimals are merged into one
\* entry, and the count is kept when no two agree; every stored line that is
\* the largest of those sharing its 4-decimal physical position comes back
\* with its intensity rounded to 3 decimals and its comment.
C3_RoundTrip ==
    OneWordComments(data) =>
      LET R == RoundTrip(data)
      IN  /\ R.raised = NoError
          /\ R.data.plate_resolution = RoundedResolution(data)
          /\ R.data.plate_offset = data.plate_offset
          /\ Lines(R.data) = {BackOf(data, q) : q \in Lines(data)}
          /\ DOMAIN R.data.comments = Lines(R.data)
          /\ \A q \in Lines(data) :
                (\A q2 \in Lines(data) :
                    q2 > q => PhysicalOf(data, q2) # PhysicalOf(data, q))
                => /\ IntensityOf(R.data, BackOf(data, q))
                        = Fmt3(IntensityOf(data, q))
                   /\ CommentOf(R.data, BackOf(data, q)) = CommentOf(data, q)
          /\ (\A q1, q2 \in Lines(data) :
                 q1 # q2 => PhysicalOf(data, q1) # PhysicalOf(data, q2))
             => Len(R.data.emission_lines) = Len(data.emission_lines)

\* A store with two lines, one of them commented, a non-zero offset, whose
\* resolution, a position and an intensity all change under the rounding.
C3_Witness ==
    /\ OneWordComments(data)
    /\ Len(data.emission_lines) >= 2
    /\ data.plate_offset # 0
    /\ \E q \in Lines(data) : CommentOf(data, q) = <<"a">>
    /\ \E q \in Lines(data) : BackOf(data, q) # q
    /\ \E q \in Lines(data) : Fmt3(IntensityOf(data, q)) # IntensityOf(data, q)
    /\ RoundedResolution(data) # data.plate_resolution
    /\ Lines(RoundTrip(data).data) # Lines(data)

\* C4: after a delete request at M, no stored position that was within 0.1
\* of M and had a (non-empty) comment attached has an entry in comments.
C4_DeleteRemovesComments ==
    last = "delete_line" =>
      \A q \in Lines(pre) :
        (Near(q, M) /\ q \in DOMAIN pre.comments /\ pre.comments[q] # EmptyComment)
          => q \notin DOMAIN data.comments

\* A delete request has just removed a commented line.
C4_Witness ==
    /\ last = "delete_line"
    /\ \E q \in Lines(pre) :
         /\ Near(q, M)
         /\ q \in DOMAIN pre.comments
         /\ pre.comments[q] # EmptyComment
         /\ q \notin Lines(data)

\* C5: Data.add_comment at a position that is no key of the stored lines
\* fails with NoSuchLineError and leaves lines and comments unchanged; it
\* creates no comment entry for a position without a line.  (Checked under
\* SpecData, where M is the position passed; the code violates it.)
C5_AddCommentNeedsLine ==
    (last = "Data.add_comment" /\ M \notin Lines(pre))
      => /\ raised = "NoSuchLineError"
         /\ data.emission_lines = pre.emission_lines
         /\ data.comments = pre.comments
         /\ M \notin DOMAIN data.comments

\* C6: a delete request at M removes every stored position within 0.1 of M,
\* keeps every other one with its intensity and comment, raises nothing, and
\* leaves lines and comments as they were when no position is within 0.1.
C6_DeleteRemovesAllNear ==
    last = "delete_line" =>
      /\ raised = NoError
      /\ Lines(data) = {q \in Lines(pre) : ~Near(q, M)}
      /\ \A q \in Lines(data) :
           /\ IntensityOf(data, q) = IntensityOf(pre, q)
           /\ CommentOf(data, q) = CommentOf(pre, q)
      /\ (\A q \in Lines(pre) : ~Near(q, M))
           => /\ data.emission_lines = pre.emission_lines
              /\ data.comments = pre.comments

\* A delete request has just removed two lines and kept a third.
C6_Witness ==
    /\ last = "delete_line"
    /\ Cardinality({q \in Lines(pre) : Near(q, M)}) >= 2
    /\ Lines(data) # {}
    /\ comment_notif = "Line deleted."

\* The first stored position within 0.1 of m, in get_positions() order.
FirstNear(D, m) ==
    LET i == CHOOSE j \in 1..Len(D.emission_lines) :
                 /\ Near(D.emission_lines[j].pos, m)
                 /\ \A k \in 1..(j - 1) : ~Near(D.emission_lines[k].pos, m)
    IN  D.emission_lines[i].pos

\* C7 (taken on stores with no two positions within 0.1): a comment request
\* at M changes the comment of at most one stored line, the first stored
\* position within 0.1 of M; with no position within 0.1 it changes no
\* comment and reports "line not found".  (The code violates it.)
C7_CommentsOnlyFirstNear ==
    (last = "add_comment" /\ NoNearDuplicates(pre)) =>
      IF \E q \in Lines(pre) : Near(q, M)
      THEN \A q \in Lines(pre) :
             q # FirstNear(pre, M) => CommentOf(data, q) = CommentOf(pre, q)
      ELSE /\ data.comments = pre.comments
           /\ comment_notif = "Error: Line not found.\nComment not added."

\* C8: after a successful load the calibration is the file's two header
\* values, the stored positions are exactly the rows' positions computed as
\* (physical - offset) * resolution with that header's values, each with the
\* intensity and comment of the last row giving that position, and nothing
\* of the store before the load survives.
C8_LoadReplacesStore ==
    (last = "load_lines" /\ raised = NoError) =>
      LET L == arg.lines
          res == Frac(L[1][3].v, FileUnit)
          off == L[2][3].v
          rows == 4..Len(L)
          RowPixel(k) == PixelOf(L[k][1].v, res, off)
      IN  /\ data.plate_resolution = res
          /\ data.plate_offset = off
          /\ Lines(data) = {RowPixel(k) : k \in rows}
          /\ DOMAIN data.comments = Lines(data)
          /\ \A k \in rows :
               (\A j \in rows : j > k => RowPixel(j) # RowPixel(k))
               => /\ IntensityOf(data, RowPixel(k)) = L[k][2].v
                  /\ CommentOf(data, RowPixel(k)) =
                       IF Len(L[k]) >= 3 THEN <<TokText(L[k][3])>>
                       ELSE EmptyComment

\* A load has just replaced a commented line and another calibration by the
\* two lines of a file.
C8_Witness ==
    /\ last = "load_lines"
    /\ raised = NoError
    /\ Len(data.emission_lines) >= 2
    /\ \E q \in Lines(pre) : q \notin Lines(data) /\ CommentOf(pre, q) # EmptyComment
    /\ pre.plate_resolution # data.plate_resolution
    /\ pre.plate_offset # data.plate_offset

\* The place of q among the stored positions in ascending order.
Rank(D, q) == 1 + Cardinality({p \in Lines(D) : p < q})

\* C9: save_lines writes, after its three header lines, exactly one row per
\* stored line, the row of the k-th smallest pixel position in k-th place,
\* whatever the order of the dictionary.
C9_SaveSortedRows ==
    last = "save_lines" =>
      /\ disk.exists
      /\ Len(disk.lines) = 3 + Len(pre.emission_lines)
      /\ \A q \in Lines(pre) : disk.lines[3 + Rank(pre, q)] = SaveRow(pre, q)

\* A save has just written a store whose insertion order is not ascending.
C9_Witness ==
    /\ last = "save_lines"
    /\ \E i, j \in 1..Len(pre.emission_lines) :
         i < j /\ pre.emission_lines[i].pos > pre.emission_lines[j].pos
    /\ Len(disk.lines) >= 5

C11_CommentsOnlyForLines ==
    DOMAIN data.comments \subseteq Lines(data)

=============================================================================
